---- MODULE Spec2Model ----
(***************************************************************************)
(* ISO 15765-2 proxy over a raw CAN pass-through channel                   *)
(* (src/ISO15765Proxy/iso15765.cpp): the frame codec, the per-filter       *)
(* Transfer state machine, the filter registry and the channel adapter.    *)
(*                                                                         *)
(* A pass-through message is a record                                      *)
(*   [ProtocolID, RxStatus, TxFlags, DataSize, Data]                       *)
(* Data is the byte buffer (C index i is Data[i+1]); flag words are sets   *)
(* of flag names.  A blocking call is a sequence of steps, one per turn of *)
(* its loop; the wrapped CAN channel and the steady clock are the          *)
(* environment.                                                            *)
(***************************************************************************)
EXTENDS Integers, Sequences, FiniteSets, TLC

VARIABLES
    xfer,       \* Tid -> ISO15765Transfer object
    config,     \* the channel configuration store: [BS, STMIN]
    now,        \* std::chrono::steady_clock::now(), in milliseconds
    tx,         \* CAN frames the wrapped channel accepted, in order
    rx,         \* CAN frames queued in the wrapped channel for reading
    fcReads,    \* reads writeMsg issued on the wrapped channel in this call
    cfSinceFc,  \* ConsecutiveFrames writeMsg emitted since its last read
    lastFc,     \* the frame writeMsg's last read returned
    mMessageFilters, \* the adapter's filter registry: Tids in insertion order
    w,          \* the running ChannelISO15765::writeMsgs / writeMsg call
    r,          \* the running ChannelISO15765::readMsgs call
    conn        \* the DeviceISO15765::connect call

vars == <<xfer, config, now, tx, rx, fcReads, cfSinceFc, lastFc,
          mMessageFilters, w, r, conn>>

-----------------------------------------------------------------------------
(* Bounds of the model *)

MaxShort == 15     \* short payload lengths are 0..MaxShort
WrapLen == 119     \* the long payload: 6 + 16*7 + 1 bytes, 17 ConsecutiveFrames
MaxNow == 2        \* the clock stops being advanced at MaxNow
MaxBS == 2         \* block sizes offered are 0..MaxBS
MaxStmin == 2      \* separation times offered are 0..MaxStmin
MaxCap == 2        \* readMsgs is asked for 1..MaxCap messages
MaxFrames == 3     \* frames the bus delivers to one readMsgs call
MaxFf == 10        \* the longest message a FirstFrame announces, but for
                   \* the one of 4095 bytes
MaxProto == 40     \* connect is called with protocol ids 0..MaxProto, with
                   \* and without a bit above the low 13

-----------------------------------------------------------------------------
(* Program constants *)

J2534_DATA_OFFSET == 4
CAN_DATA_SIZE == 8
J2534_PCI_SIZE == 1
J2534_LENGTH_SIZE == 1
J2534_BS_SIZE == 1
J2534_STMIN_SIZE == 1

\* protocol identifiers of the pass-through API; CAN is the one before
\* ISO15765 (line 49)
ISO15765 == 6
CAN == ISO15765 - 1

ISO15765_FRAME_PAD == "ISO15765_FRAME_PAD"
ISO15765_ADDR_TYPE == "ISO15765_ADDR_TYPE"

\* Conversion to unsigned long (to size_t): reduction modulo a power of two.
\* Zero stays zero and a negative value becomes a large positive one at
\* every width of the type (32 or 64 bits); 2^30 is the widest the
\* checker's integers leave room for.
ULongMod == 2 ^ 30
ULong(x) == x % ULongMod

Min(a, b) == IF a < b THEN a ELSE b

\* the CAN identifiers of the model
PidA  == 7 * 256 + 224                               \* 0x7E0
PidAR == 7 * 256 + 232                               \* 0x7E8
PidB  == 24 * 16777216 + 218 * 65536 + 16 * 256 + 241   \* 0x18DA10F1
PidBR == 24 * 16777216 + 218 * 65536 + 241 * 256 + 16   \* 0x18DAF110
PidNone == 256 + 35                                  \* 0x123, no filter
MaskAll == 2 ^ 29 - 1              \* the mask of bytes FF FF FF FF
MaskLow == 7 * 256 + 240           \* 0x7F0, the mask of bytes 00 00 07 F0

RECURSIVE BitAndBits(_, _)
BitAndBits(a, b) ==
    IF a = 0 \/ b = 0 THEN 0
    ELSE (a % 2) * (b % 2) + 2 * BitAndBits(a \div 2, b \div 2)

\* a & b, bit by bit; the values for the model's identifiers are computed
\* once
KnownPids == {PidA, PidAR, PidB, PidBR, PidNone, MaskAll, MaskLow}
AndTable ==
    [p \in KnownPids \X KnownPids |-> BitAndBits(p[1], p[2])] @@ << >>
BitAnd(a, b) ==
    IF a \in KnownPids /\ b \in KnownPids THEN AndTable[<< a, b >>]
    ELSE BitAndBits(a, b)

-----------------------------------------------------------------------------
(* Frame codec *)

data2pid(data) ==
    (data[1] % 32) * 16777216 + (data[2] % 256) * 65536
        + (data[3] % 256) * 256 + (data[4] % 256)

pid2Data(pid) ==
    << (pid \div 16777216) % 32, (pid \div 65536) % 256,
       (pid \div 256) % 256, pid % 256 >>

getFrameName(pci) ==
    CASE (pci % 256) \div 16 = 0 -> "SingleFrame"
      [] (pci % 256) \div 16 = 1 -> "FirstFrame"
      [] (pci % 256) \div 16 = 2 -> "ConsecutiveFrame"
      [] (pci % 256) \div 16 = 3 -> "FlowControl"
      [] OTHER -> "UnknownFrame"

getPci(frameName) ==
    CASE frameName = "SingleFrame" -> 0
      [] frameName = "FirstFrame" -> 16
      [] frameName = "ConsecutiveFrame" -> 32
      [] frameName = "FlowControl" -> 48
      [] OTHER -> 240

\* a variant that keeps three bits of the low nibble
PciByteLow3(frameName, low) ==
    (getPci(frameName) - (getPci(frameName) % 16)) + (low % 8)

\* (pci & 0xF0) | (low & 0x0F)
PciByte(frameName, low) ==
    (getPci(frameName) - (getPci(frameName) % 16)) + (low % 16)

\* a variant that caps a frame's payload at six bytes
getRemainingSizeCap6(DataSize, offset) ==
    LET ret == ULong(DataSize - offset)
    IN  IF ret > 6 THEN 6 ELSE ret

getRemainingSize(DataSize, offset) ==
    LET ret == ULong(DataSize - offset)
    IN  IF ret > 7 THEN 7 ELSE ret

prepareSentMessageHeaders(in_msg) ==
    [ProtocolID |-> CAN, RxStatus |-> {},
     TxFlags |-> in_msg.TxFlags \ {ISO15765_FRAME_PAD, ISO15765_ADDR_TYPE},
     DataSize |-> 0,
     Data |-> SubSeq(in_msg.Data, 1, J2534_DATA_OFFSET)]

prepareReceivedMessageHeaders(in_msg) ==
    [ProtocolID |-> ISO15765, RxStatus |-> in_msg.RxStatus,
     TxFlags |-> {},
     DataSize |-> 0,
     Data |-> SubSeq(in_msg.Data, 1, J2534_DATA_OFFSET)]

Zeros(n) == [i \in 1..n |-> 0]

\* a variant that sets the size and writes no zero
paddingMessageSizeOnly(smsg) ==
    [smsg EXCEPT
        !.Data = SubSeq(smsg.Data, 1, smsg.DataSize)
                    \o [i \in 1..(CAN_DATA_SIZE + J2534_DATA_OFFSET - smsg.DataSize)
                            |-> 255],
        !.DataSize = CAN_DATA_SIZE + J2534_DATA_OFFSET]

paddingMessage(smsg) ==
    [smsg EXCEPT
        !.Data = SubSeq(smsg.Data, 1, smsg.DataSize)
                    \o Zeros(CAN_DATA_SIZE + J2534_DATA_OFFSET - smsg.DataSize),
        !.DataSize = CAN_DATA_SIZE + J2534_DATA_OFFSET]

\* bytes Data[from .. from+n-1] of a buffer, C indices
Bytes(data, from, n) == SubSeq(data, from + 1, from + n)

-----------------------------------------------------------------------------
(* ISO15765Transfer *)

Tids == {1, 2}

NoMsg == [ProtocolID |-> 0, RxStatus |-> {}, TxFlags |-> {}, DataSize |-> 0,
          Data |-> << >>]

Transfer(mask, pattern, flowControl) ==
    [mMaskPid |-> mask, mPatternPid |-> pattern, mFlowControlPid |-> flowControl,
     mState |-> "START_STATE", mOffset |-> 0, mSequence |-> 0,
     mBs |-> 0, mStmin |-> 0, mMessage |-> NoMsg]

\* a variant that leaves mSequence as it is
clearKeepSeq(t) ==
    [t EXCEPT !.mState = "START_STATE", !.mOffset = 0, !.mBs = 0, !.mStmin = 0]

\* a variant that leaves mOffset as it is
clearKeepOffset(t) ==
    [t EXCEPT !.mState = "START_STATE", !.mSequence = 0, !.mBs = 0,
              !.mStmin = 0]

\* a variant that leaves mBs and mStmin as they are
clearKeepBs(t) ==
    [t EXCEPT !.mState = "START_STATE", !.mOffset = 0, !.mSequence = 0]

clear(t) ==
    [t EXCEPT !.mState = "START_STATE", !.mOffset = 0, !.mSequence = 0,
              !.mBs = 0, !.mStmin = 0]

\* writeMsg, state START_STATE: the frame built from msg (lines 224-255)
\* and the Transfer after it, before the frame is written
firstFrameOf(msg) ==
    LET hdr  == prepareSentMessageHeaders(msg)
        off  == J2534_DATA_OFFSET
        rem  == getRemainingSize(msg.DataSize, off)
        fullsize == ULong(msg.DataSize - off)
        isFF == rem < fullsize
        size == IF isFF THEN CAN_DATA_SIZE - J2534_PCI_SIZE - J2534_LENGTH_SIZE
                ELSE rem
        body == IF isFF
                THEN << PciByte("FirstFrame", fullsize \div 256), fullsize % 256 >>
                ELSE << PciByte("SingleFrame", rem) >>
        raw  == [hdr EXCEPT !.Data = hdr.Data \o body \o Bytes(msg.Data, off, size),
                            !.DataSize = J2534_DATA_OFFSET + Len(body) + size]
    IN  [frame |-> IF ISO15765_FRAME_PAD \in msg.TxFlags
                   THEN paddingMessage(raw) ELSE raw,
         isFF |-> isFF, size |-> size]

\* a variant that leaves the counter as it is
decBsKeep(bs) == bs

\* --mBs (lines 320, 395)
decBs(bs) == ULong(bs - 1)

\* a variant that copies from one byte before the offset
consecutiveFrameOfShifted(msg, offset, sequence) ==
    LET hdr  == prepareSentMessageHeaders(msg)
        size == getRemainingSize(msg.DataSize, offset)
        raw  == [hdr EXCEPT
                   !.Data = hdr.Data \o << PciByte("ConsecutiveFrame", sequence) >>
                               \o Bytes(msg.Data, offset - 1, size),
                   !.DataSize = J2534_DATA_OFFSET + J2534_PCI_SIZE + size]
    IN  [frame |-> IF ISO15765_FRAME_PAD \in msg.TxFlags
                   THEN paddingMessage(raw) ELSE raw,
         size |-> size]

\* writeMsg, state BLOCK_STATE: the ConsecutiveFrame built from msg
\* (lines 293-309)
consecutiveFrameOf(msg, offset, sequence) ==
    LET hdr  == prepareSentMessageHeaders(msg)
        size == getRemainingSize(msg.DataSize, offset)
        raw  == [hdr EXCEPT
                   !.Data = hdr.Data \o << PciByte("ConsecutiveFrame", sequence) >>
                               \o Bytes(msg.Data, offset, size),
                   !.DataSize = J2534_DATA_OFFSET + J2534_PCI_SIZE + size]
    IN  [frame |-> IF ISO15765_FRAME_PAD \in msg.TxFlags
                   THEN paddingMessage(raw) ELSE raw,
         size |-> size]

\* a variant that accepts a Flow Control frame of any identifier
validFlowControlAnyPid(t, count, m) ==
    /\ count = 1
    /\ m.DataSize >= J2534_DATA_OFFSET
    /\ getFrameName(m.Data[J2534_DATA_OFFSET + 1]) = "FlowControl"

\* writeMsg, state FLOW_CONTROL_STATE: the checks on the frame read
\* (lines 267-283)
validFlowControl(t, count, m) ==
    /\ count = 1
    /\ m.DataSize >= J2534_DATA_OFFSET
    /\ BitAnd(data2pid(m.Data), t.mMaskPid) = t.mPatternPid
    /\ getFrameName(m.Data[J2534_DATA_OFFSET + 1]) = "FlowControl"

\* memcpy(&buf[offset], bytes, n); a byte of the buffer that nothing wrote
\* in this transfer is Stale
Stale == 0 - 1
Put(data, offset, bytes) ==
    [i \in 1..(offset + Len(bytes)) |->
        IF i > offset THEN bytes[i - offset]
        ELSE IF i <= Len(data) THEN data[i] ELSE Stale]

\* sendFlowControlMessage up to the write (lines 420-438): the Transfer
\* with mBs and mStmin taken from the configuration, and the frame built
flowControlOf(t, cfg) ==
    LET raw == [ProtocolID |-> CAN, RxStatus |-> {}, TxFlags |-> {},
                DataSize |-> J2534_DATA_OFFSET + J2534_PCI_SIZE + J2534_BS_SIZE
                                + J2534_STMIN_SIZE,
                Data |-> pid2Data(t.mFlowControlPid)
                            \o << getPci("FlowControl"), cfg.BS % 256,
                                  cfg.STMIN % 256 >>]
    IN  [t |-> [t EXCEPT !.mBs = cfg.BS, !.mStmin = cfg.STMIN],
         frame |-> paddingMessage(raw)]

\* readMsg (lines 341-417).  wok: the wrapped channel accepts the Flow
\* Control frame, should one be written.  The result: the Transfer after the
\* call, ret ("complete" is the C++ true; "pending" and "failed" are both
\* false), the output message when complete, the frames written
readMsg(t, in_msg, cfg, wok) ==
    LET failed == [t |-> clear(t), ret |-> "failed", out |-> NoMsg, sent |-> << >>]
        finish(t2, sent) ==
            IF t2.mOffset >= t2.mMessage.DataSize
            THEN [t |-> clear(t2), ret |-> "complete", out |-> t2.mMessage,
                  sent |-> sent]
            ELSE [t |-> t2, ret |-> "pending", out |-> NoMsg, sent |-> sent]
        pci == in_msg.Data[J2534_DATA_OFFSET + 1]
        frameName == getFrameName(pci)
    IN
    IF in_msg.DataSize < J2534_DATA_OFFSET THEN failed
    ELSE IF BitAnd(data2pid(in_msg.Data), t.mMaskPid) # t.mPatternPid THEN failed
    ELSE IF t.mState = "START_STATE" THEN
        LET hdr == prepareReceivedMessageHeaders(in_msg)
            off == J2534_DATA_OFFSET
        IN  IF frameName = "SingleFrame" THEN
                LET size == pci % 16
                    m == [hdr EXCEPT
                            !.DataSize = J2534_DATA_OFFSET + size,
                            !.Data = Put(hdr.Data, off,
                                Bytes(in_msg.Data, J2534_DATA_OFFSET + J2534_PCI_SIZE, size))]
                IN  finish([t EXCEPT !.mMessage = m, !.mOffset = off + size], << >>)
            ELSE IF frameName = "FirstFrame" THEN
                LET fullsize == (pci % 16) * 256 + (in_msg.Data[J2534_DATA_OFFSET + J2534_PCI_SIZE + 1] % 256)
                    size == CAN_DATA_SIZE - J2534_PCI_SIZE - J2534_LENGTH_SIZE
                    m == [hdr EXCEPT
                            !.DataSize = J2534_DATA_OFFSET + fullsize,
                            !.Data = Put(hdr.Data, off,
                                Bytes(in_msg.Data, J2534_DATA_OFFSET + J2534_PCI_SIZE
                                        + J2534_LENGTH_SIZE, size))]
                    t1 == [t EXCEPT !.mMessage = m, !.mSequence = @ + 1,
                                    !.mOffset = off + size]
                    fc == flowControlOf(t1, cfg)
                IN  IF ~wok THEN [failed EXCEPT !.t = clear(fc.t)]
                    ELSE finish([fc.t EXCEPT !.mState = "BLOCK_STATE"], << fc.frame >>)
            ELSE [failed EXCEPT !.t = clear([t EXCEPT !.mMessage = hdr])]
    ELSE IF t.mState = "BLOCK_STATE" THEN
        IF pci % 16 # t.mSequence % 16 THEN failed
        ELSE
            LET size == getRemainingSize(t.mMessage.DataSize, t.mOffset)
                m == [t.mMessage EXCEPT
                        !.Data = Put(@, t.mOffset,
                            Bytes(in_msg.Data, J2534_DATA_OFFSET + J2534_PCI_SIZE, size))]
                t1 == [t EXCEPT !.mMessage = m, !.mSequence = @ + 1,
                                !.mOffset = @ + size, !.mBs = decBs(@)]
            IN  IF t1.mBs = 0
                THEN LET fc == flowControlOf(t1, cfg)
                     IN  IF ~wok THEN [failed EXCEPT !.t = clear(fc.t)]
                         ELSE finish(fc.t, << fc.frame >>)
                ELSE finish(t1, << >>)
    ELSE failed

-----------------------------------------------------------------------------
(* Filter registry *)

\* a variant that takes the last match
LastMatch(filters, matching) ==
    LET at == { k \in 1..Len(filters) : filters[k] \in matching }
    IN  IF at = {} THEN 0
        ELSE filters[CHOOSE k \in at : \A j \in at : k >= j]

\* std::find_if over the registry: the first Tid of filters that is in
\* matching, 0 (nullptr) when there is none
FirstMatch(filters, matching) ==
    LET at == { k \in 1..Len(filters) : filters[k] \in matching }
    IN  IF at = {} THEN 0
        ELSE filters[CHOOSE k \in at : \A j \in at : k <= j]

getTransferByFlowControl(msg) ==
    LET pid == data2pid(msg.Data)
    IN  FirstMatch(mMessageFilters,
                   { tid \in Tids : xfer[tid].mFlowControlPid = pid })

getTransferByPattern(msg) ==
    LET pid == data2pid(msg.Data)
    IN  FirstMatch(mMessageFilters,
                   { tid \in Tids :
                       xfer[tid].mPatternPid = BitAnd(pid, xfer[tid].mMaskPid) })

-----------------------------------------------------------------------------
(* Inputs *)

Payload(len) == [i \in 1..len |-> (160 + i) % 256]

Logical(pid, len, flags) ==
    [ProtocolID |-> ISO15765, RxStatus |-> {}, TxFlags |-> flags,
     DataSize |-> J2534_DATA_OFFSET + len,
     Data |-> pid2Data(pid) \o Payload(len)]

CanFrame(pid, bytes) ==
    [ProtocolID |-> CAN, RxStatus |-> {}, TxFlags |-> {},
     DataSize |-> J2534_DATA_OFFSET + Len(bytes),
     Data |-> pid2Data(pid) \o bytes]

Lens == (0..MaxShort) \cup {WrapLen}

\* a logical message too short to hold an identifier: DataSize 3, the
\* buffer's first four bytes are PidA
ShortMsg == [Logical(PidA, 0, {}) EXCEPT !.DataSize = 3]

SmallMsgs ==
    { ShortMsg, Logical(PidNone, 2, {}), Logical(PidA, 3, {}),
      Logical(PidA, 9, {}), Logical(PidB, 8, {ISO15765_FRAME_PAD}) }

Batches ==
    { << Logical(PidA, n, f) >> :
         n \in 0..MaxShort, f \in {{}, {ISO15765_FRAME_PAD, ISO15765_ADDR_TYPE}} }
    \cup { << Logical(PidA, WrapLen, {}) >> }
    \cup { << m >> : m \in SmallMsgs }
    \cup { << m1, m2 >> :
              m1 \in SmallMsgs,
              m2 \in {Logical(PidA, 3, {}), Logical(PidB, 8, {ISO15765_FRAME_PAD})} }

Timeouts == {0, 1, MaxNow + 1}

FlowControlFrames(pid) ==
    { CanFrame(pid, << 48, bs, st, 0, 0, 0, 0, 0 >>) :
        bs \in 0..MaxBS, st \in 0..MaxStmin }

\* what a read on the wrapped channel may return to writeMsg
Replies ==
    FlowControlFrames(PidAR)
    \cup { CanFrame(PidBR, << 48, 0, 0, 0, 0, 0, 0, 0 >>),
           CanFrame(PidAR, << 33, 1, 2, 3, 4, 5, 6, 7 >>),
           CanFrame(PidAR, << 64, 0, 0, 0, 0, 0, 0, 0 >>),
           [CanFrame(PidAR, << 48 >>) EXCEPT !.DataSize = 3] }

Filters0 ==
    [tid \in Tids |->
        IF tid = 1 THEN Transfer(MaskAll, PidAR, PidA)
        ELSE Transfer(MaskAll, PidBR, PidB)]

\* a Transfer that readMsg left in the middle of a reassembly: a FirstFrame
\* announcing 8 bytes was read
MidReassembly(t, cfg) ==
    readMsg(t, CanFrame(t.mPatternPid, << 16, 8, 1, 2, 3, 4, 5, 6 >>), cfg, TRUE).t

IdleW == [pc |-> "idle", batch |-> << >>, i |-> 0, count |-> 0, deadline |-> 0,
          NumMsgs |-> 0, tid |-> 0, msg |-> NoMsg, wdeadline |-> 0, tx0 |-> 0,
          results |-> << >>]
IdleR == [pc |-> "idle", cap |-> 0, i |-> 0, count |-> 0, deadline |-> 0,
          NumMsgs |-> 0, slots |-> << >>, completed |-> << >>, n |-> 0]
IdleConn == [pc |-> "idle", ProtocolID |-> 0, delegated |-> 0,
             wrapped |-> FALSE]

-----------------------------------------------------------------------------
(* ChannelISO15765::writeMsgs and ISO15765Transfer::writeMsg *)

\* steady_clock::now() advances while a call runs
CallRunning == w.pc \in {"batch", "loop"} \/ r.pc \in {"slot"}

Tick ==
    /\ CallRunning
    /\ now < MaxNow
    /\ now' = now + 1
    /\ UNCHANGED <<xfer, config, tx, rx, fcReads, cfSinceFc, lastFc,
                   mMessageFilters, w, r, conn>>

\* the remaining time as the code holds it, in an unsigned long
Remaining(deadline) == ULong(deadline - now)

\* lines 576-580, 595-596: the batch is exhausted, or no time remains
WriteMsgsEnd ==
    /\ w.pc = "batch"
    /\ \/ w.i > Len(w.batch)
       \/ Remaining(w.deadline) = 0
    /\ w' = [w EXCEPT !.pc = "returned", !.NumMsgs = w.count]
    /\ UNCHANGED <<xfer, config, now, tx, rx, fcReads, cfSinceFc, lastFc,
                   mMessageFilters, r, conn>>

\* the loop of writeMsgs reaches message i with time remaining
WriteMsgsTurn ==
    /\ w.pc = "batch"
    /\ w.i <= Len(w.batch)
    /\ Remaining(w.deadline) # 0

\* lines 583, 590-592: no Transfer has the message's identifier
WriteMsgsIgnore ==
    /\ WriteMsgsTurn
    /\ getTransferByFlowControl(w.batch[w.i]) = 0
    /\ w' = [w EXCEPT !.i = @ + 1]
    /\ UNCHANGED <<xfer, config, now, tx, rx, fcReads, cfSinceFc, lastFc,
                   mMessageFilters, r, conn>>

\* lines 208-210: writeMsg throws J2534Exception(ERR_INVALID_MSG); nothing
\* in writeMsgs catches it, so it leaves writeMsgs before line 596
WriteMsgsThrow ==
    /\ WriteMsgsTurn
    /\ getTransferByFlowControl(w.batch[w.i]) # 0
    /\ w.batch[w.i].DataSize < J2534_DATA_OFFSET
    /\ w' = [w EXCEPT !.pc = "thrown",
                      !.tid = getTransferByFlowControl(w.batch[w.i]),
                      !.msg = w.batch[w.i]]
    /\ UNCHANGED <<xfer, config, now, tx, rx, fcReads, cfSinceFc, lastFc,
                   mMessageFilters, r, conn>>

\* a variant that counts every message writeMsg returned from
ReturnedCounted(call, ret, why) ==
    [call EXCEPT !.pc = "batch", !.i = @ + 1,
                 !.count = @ + 1,
                 !.results = Append(@, [ret |-> ret, why |-> why])]

\* writeMsg returns ret to writeMsgs, which counts it and moves to the next
\* message (lines 585-589, 576)
Returned(call, ret, why) ==
    [call EXCEPT !.pc = "batch", !.i = @ + 1,
                 !.count = IF ret THEN @ + 1 ELSE @,
                 !.results = Append(@, [ret |-> ret, why |-> why])]

\* lines 212-215: the Transfer is not idle
WriteMsgsBusy ==
    /\ WriteMsgsTurn
    /\ LET tid == getTransferByFlowControl(w.batch[w.i])
       IN  /\ tid # 0
           /\ w.batch[w.i].DataSize >= J2534_DATA_OFFSET
           /\ xfer[tid].mState # "START_STATE"
           /\ xfer' = [xfer EXCEPT ![tid] = clear(@)]
           /\ w' = Returned([w EXCEPT !.tid = tid, !.msg = w.batch[w.i],
                                      !.wdeadline = now + Remaining(w.deadline),
                                      !.tx0 = Len(tx)],
                            FALSE, "state")
    /\ fcReads' = 0 /\ cfSinceFc' = 0 /\ lastFc' = NoMsg
    /\ UNCHANGED <<config, now, tx, rx, mMessageFilters, r, conn>>

\* lines 205, 583-585: writeMsg is entered and reaches its loop
WriteMsgsEnter ==
    /\ WriteMsgsTurn
    /\ LET tid == getTransferByFlowControl(w.batch[w.i])
       IN  /\ tid # 0
           /\ w.batch[w.i].DataSize >= J2534_DATA_OFFSET
           /\ xfer[tid].mState = "START_STATE"
           /\ w' = [w EXCEPT !.pc = "loop", !.tid = tid, !.msg = w.batch[w.i],
                             !.wdeadline = now + Remaining(w.deadline),
                             !.tx0 = Len(tx)]
    /\ fcReads' = 0 /\ cfSinceFc' = 0 /\ lastFc' = NoMsg
    /\ UNCHANGED <<xfer, config, now, tx, rx, mMessageFilters, r, conn>>

\* line 217 is false, lines 333-334
WriteDone ==
    /\ w.pc = "loop"
    /\ ~(w.msg.DataSize > xfer[w.tid].mOffset)
    /\ xfer' = [xfer EXCEPT ![w.tid] = clear(@)]
    /\ w' = Returned(w, TRUE, "ok")
    /\ UNCHANGED <<config, now, tx, rx, fcReads, cfSinceFc, lastFc,
                   mMessageFilters, r, conn>>

\* a turn of the loop of writeMsg (line 217)
WriteTurn == w.pc = "loop" /\ w.msg.DataSize > xfer[w.tid].mOffset

\* lines 218-221
WriteDeadline ==
    /\ WriteTurn
    /\ Remaining(w.wdeadline) = 0
    /\ w' = Returned(w, FALSE, "deadline")
    /\ UNCHANGED <<xfer, config, now, tx, rx, fcReads, cfSinceFc, lastFc,
                   mMessageFilters, r, conn>>

\* lines 336-338
Fail(t, why) ==
    /\ xfer' = [xfer EXCEPT ![w.tid] = clear(t)]
    /\ w' = Returned(w, FALSE, why)

\* lines 223-263.  ok: the wrapped channel reports one frame written
WriteStartStep(ok) ==
    /\ WriteTurn
    /\ Remaining(w.wdeadline) # 0
    /\ xfer[w.tid].mState = "START_STATE"
    /\ LET f == firstFrameOf(w.msg)
           t1 == [xfer[w.tid] EXCEPT
                    !.mOffset = J2534_DATA_OFFSET + f.size,
                    !.mSequence = IF f.isFF THEN @ + 1 ELSE @,
                    !.mMessage = f.frame]
       IN  IF ok
           THEN /\ tx' = Append(tx, f.frame)
                /\ xfer' = [xfer EXCEPT ![w.tid] =
                               [t1 EXCEPT !.mState = "FLOW_CONTROL_STATE"]]
                /\ w' = w
           ELSE /\ tx' = tx
                /\ Fail(t1, "write")
    /\ UNCHANGED <<config, now, fcReads, cfSinceFc, lastFc, mMessageFilters,
                   r, conn>>

\* lines 264-291.  count, m: what the read on the wrapped channel returned
WriteFlowControlStep(count, m) ==
    /\ WriteTurn
    /\ Remaining(w.wdeadline) # 0
    /\ xfer[w.tid].mState = "FLOW_CONTROL_STATE"
    /\ fcReads' = fcReads + 1
    /\ cfSinceFc' = 0
    /\ LET t0 == xfer[w.tid]
           t1 == IF count = 1 THEN [t0 EXCEPT !.mMessage = m] ELSE t0
       IN  IF validFlowControl(t0, count, m)
           THEN /\ now + (m.Data[J2534_DATA_OFFSET + J2534_PCI_SIZE + J2534_BS_SIZE + 1]) <= MaxNow
                /\ xfer' = [xfer EXCEPT ![w.tid] =
                     [t1 EXCEPT
                        !.mBs = m.Data[J2534_DATA_OFFSET + J2534_PCI_SIZE + 1],
                        !.mStmin = m.Data[J2534_DATA_OFFSET + J2534_PCI_SIZE
                                            + J2534_BS_SIZE + 1],
                        !.mState = "BLOCK_STATE"]]
                /\ now' = now + m.Data[J2534_DATA_OFFSET + J2534_PCI_SIZE
                                            + J2534_BS_SIZE + 1]
                /\ lastFc' = m
                /\ w' = w
           ELSE /\ now' = now
                /\ lastFc' = IF count = 1 THEN m ELSE NoMsg
                /\ Fail(t1, IF count = 1 THEN "flowcontrol" ELSE "read")
    /\ UNCHANGED <<config, tx, mMessageFilters, r, conn>>

\* lines 292-326.  ok: the wrapped channel reports one frame written
WriteBlockStep(ok) ==
    /\ WriteTurn
    /\ Remaining(w.wdeadline) # 0
    /\ xfer[w.tid].mState = "BLOCK_STATE"
    /\ LET t0 == xfer[w.tid]
           f  == consecutiveFrameOf(w.msg, t0.mOffset, t0.mSequence)
           t1 == [t0 EXCEPT !.mSequence = @ + 1, !.mOffset = @ + f.size,
                            !.mMessage = f.frame]
           t2 == [t1 EXCEPT !.mBs = decBs(@)]
       IN  IF ok
           THEN /\ tx' = Append(tx, f.frame)
                /\ cfSinceFc' = cfSinceFc + 1
                /\ IF t2.mBs = 0
                   THEN /\ xfer' = [xfer EXCEPT ![w.tid] =
                                      [t2 EXCEPT !.mState = "FLOW_CONTROL_STATE"]]
                        /\ now' = now
                   ELSE /\ now + t2.mStmin <= MaxNow
                        /\ xfer' = [xfer EXCEPT ![w.tid] = t2]
                        /\ now' = now + t2.mStmin
                /\ w' = w
           ELSE /\ tx' = tx
                /\ cfSinceFc' = cfSinceFc
                /\ now' = now
                /\ Fail(t1, "write")
    /\ UNCHANGED <<config, rx, fcReads, lastFc, mMessageFilters, r, conn>>

\* the wrapped channel is the environment
WriteStart == \E ok \in BOOLEAN : WriteStartStep(ok) /\ rx' = rx
WriteFlowControl ==
    \/ WriteFlowControlStep(0, NoMsg) /\ rx' = rx
    \/ \E m \in Replies : WriteFlowControlStep(1, m) /\ rx' = rx
WriteBlock == \E ok \in BOOLEAN : WriteBlockStep(ok)

InitW ==
    /\ config = [BS |-> MaxBS, STMIN |-> 0]
    /\ \E busy \in BOOLEAN :
         /\ xfer = IF busy
                   THEN [Filters0 EXCEPT ![1] = MidReassembly(@, config)]
                   ELSE Filters0
         /\ \E batch \in Batches, Timeout \in Timeouts :
              /\ busy => Len(batch) = 2
              /\ w = [IdleW EXCEPT !.pc = "batch", !.batch = batch, !.i = 1,
                                   !.deadline = Timeout,
                                   !.NumMsgs = Len(batch)]
    /\ now = 0
    /\ tx = << >>
    /\ rx = << >>
    /\ fcReads = 0 /\ cfSinceFc = 0 /\ lastFc = NoMsg
    /\ mMessageFilters = << 1, 2 >>
    /\ r = IdleR
    /\ conn = IdleConn

NextW ==
    \/ Tick
    \/ WriteMsgsEnd
    \/ WriteMsgsIgnore
    \/ WriteMsgsThrow
    \/ WriteMsgsBusy
    \/ WriteMsgsEnter
    \/ WriteDone
    \/ WriteDeadline
    \/ WriteStart
    \/ WriteFlowControl
    \/ WriteBlock

SpecW == InitW /\ [][NextW]_vars

-----------------------------------------------------------------------------
(* ChannelISO15765::readMsgs *)

\* what the bus may deliver to readMsgs
BusFrames ==
    { CanFrame(PidAR, << 2, 17, 18, 0, 0, 0, 0, 0 >>),
      CanFrame(PidAR, << 1, 49, 0, 0, 0, 0, 0, 0 >>),
      CanFrame(PidAR, << 16, 10, 0, 1, 2, 3, 4, 5 >>),
      CanFrame(PidAR, << 33, 6, 7, 8, 9, 10, 11, 12 >>),
      CanFrame(PidAR, << 35, 6, 7, 8, 9, 10, 11, 12 >>),
      CanFrame(PidAR, << 48, 0, 0, 0, 0, 0, 0, 0 >>),
      CanFrame(PidAR, << 65, 6, 7, 8, 9, 10, 11, 12 >>),
      [CanFrame(PidAR, << 2, 17, 18, 0, 0, 0, 0, 0 >>) EXCEPT !.DataSize = 3],
      CanFrame(PidBR, << 2, 65, 66, 0, 0, 0, 0, 0 >>),
      CanFrame(PidNone, << 2, 81, 82, 0, 0, 0, 0, 0 >>) }

\* lines 536, 568-569: every slot asked for was filled
ReadMsgsEnd ==
    /\ r.pc = "slot"
    /\ ~(r.i < r.cap)
    /\ r' = [r EXCEPT !.pc = "returned", !.NumMsgs = r.count]
    /\ UNCHANGED <<xfer, config, now, tx, rx, fcReads, cfSinceFc, lastFc,
                   mMessageFilters, w, conn>>

\* a turn of the inner loop (line 537)
ReadTurn == r.pc = "slot" /\ r.i < r.cap

\* lines 538-542
ReadMsgsTimeout ==
    /\ ReadTurn
    /\ Remaining(r.deadline) = 0
    /\ r' = [r EXCEPT !.pc = "returned", !.NumMsgs = r.count]
    /\ UNCHANGED <<xfer, config, now, tx, rx, fcReads, cfSinceFc, lastFc,
                   mMessageFilters, w, conn>>

\* lines 544-550: the wrapped channel returns no frame
ReadMsgsNoFrame ==
    /\ ReadTurn
    /\ Remaining(r.deadline) # 0
    /\ r' = [r EXCEPT !.pc = "returned", !.NumMsgs = r.count]
    /\ UNCHANGED <<xfer, config, now, tx, rx, fcReads, cfSinceFc, lastFc,
                   mMessageFilters, w, conn>>

\* lines 544-565: the wrapped channel returns the frame readMsg_.  wok: the
\* wrapped channel accepts a Flow Control frame, should readMsg write one.
\* The output of a completed message goes to *pMsg, and pMsg is the pointer
\* the caller passed: nothing advances it.
ReadMsgsBody(readMsg_, wok) ==
    /\ ReadTurn
    /\ Remaining(r.deadline) # 0
    /\ LET tid == getTransferByPattern(readMsg_)
           res == readMsg(xfer[tid], readMsg_, config, wok)
           seen == [r EXCEPT !.n = @ + 1]
       IN  IF tid = 0
           THEN /\ r' = seen
                /\ UNCHANGED <<xfer, tx>>
           ELSE /\ xfer' = [xfer EXCEPT ![tid] = res.t]
                /\ tx' = tx \o res.sent
                /\ IF res.ret = "complete"
                   THEN r' = [seen EXCEPT
                                !.slots = [@ EXCEPT ![1] = res.out],
                                !.completed = Append(@, res.out),
                                !.count = @ + 1,
                                !.i = @ + 1]
                   ELSE r' = seen
    /\ UNCHANGED <<config, now, rx, fcReads, cfSinceFc, lastFc,
                   mMessageFilters, w, conn>>

\* at most MaxFrames frames are delivered
ReadMsgsStep(readMsg_, wok) ==
    /\ r.n < MaxFrames
    /\ ReadMsgsBody(readMsg_, wok)

ReadMsgsDrop ==
    \E m \in BusFrames : getTransferByPattern(m) = 0 /\ ReadMsgsStep(m, TRUE)

ReadMsgsFrame ==
    \E m \in BusFrames : getTransferByPattern(m) # 0 /\ ReadMsgsStep(m, TRUE)

\* the wrapped channel refuses the Flow Control frame readMsg writes
ReadMsgsRefused ==
    \E m \in BusFrames :
        /\ getTransferByPattern(m) # 0
        /\ readMsg(xfer[getTransferByPattern(m)], m, config, TRUE).sent # << >>
        /\ ReadMsgsStep(m, FALSE)

InitR ==
    /\ \E bs \in 0..MaxBS : config = [BS |-> bs, STMIN |-> 0]
    /\ xfer = Filters0
    /\ \E cap \in 1..MaxCap, Timeout \in Timeouts :
         r = [IdleR EXCEPT !.pc = "slot", !.cap = cap, !.deadline = Timeout,
                           !.NumMsgs = cap,
                           !.slots = [k \in 1..cap |-> NoMsg]]
    /\ now = 0
    /\ tx = << >>
    /\ rx = << >>
    /\ fcReads = 0 /\ cfSinceFc = 0 /\ lastFc = NoMsg
    /\ mMessageFilters = << 1, 2 >>
    /\ w = IdleW
    /\ conn = IdleConn

NextR ==
    \/ Tick
    \/ ReadMsgsEnd
    \/ ReadMsgsTimeout
    \/ ReadMsgsNoFrame
    \/ ReadMsgsDrop
    \/ ReadMsgsFrame
    \/ ReadMsgsRefused

SpecR == InitR /\ [][NextR]_vars

-----------------------------------------------------------------------------
(* readMsgs with two filters that both match the identifier 0x7E8: filter  *)
(* 1 by mask 0x7F0 and pattern 0x7E0, filter 2 by the full mask and        *)
(* pattern 0x7E8; they were registered in either order.                    *)

RouteFilters ==
    [tid \in Tids |->
        IF tid = 1 THEN Transfer(MaskLow, PidA, PidA)
        ELSE Transfer(MaskAll, PidAR, PidB)]

InitRoute ==
    /\ config = [BS |-> 1, STMIN |-> 0]
    /\ xfer = RouteFilters
    /\ \E cap \in 1..MaxCap, Timeout \in Timeouts :
         r = [IdleR EXCEPT !.pc = "slot", !.cap = cap, !.deadline = Timeout,
                           !.NumMsgs = cap,
                           !.slots = [k \in 1..cap |-> NoMsg]]
    /\ now = 0
    /\ tx = << >>
    /\ rx = << >>
    /\ fcReads = 0 /\ cfSinceFc = 0 /\ lastFc = NoMsg
    /\ mMessageFilters \in { << 1, 2 >>, << 2, 1 >> }
    /\ w = IdleW
    /\ conn = IdleConn

SpecRoute == InitRoute /\ [][NextR]_vars

-----------------------------------------------------------------------------
(* A sender and a receiver Transfer on a CAN loopback: Transfer 1 runs     *)
(* writeMsg, Transfer 2 is fed by readMsg with every frame Transfer 1      *)
(* wrote (tx), in order, and the Flow Control frames it writes are what    *)
(* Transfer 1 reads (rx).  The loopback loses nothing: every write is      *)
(* accepted.                                                               *)

LoopFilters ==
    [tid \in Tids |->
        IF tid = 1 THEN Transfer(MaskAll, PidAR, PidA)
        ELSE Transfer(MaskAll, PidA, PidAR)]

LoopWriteStart == WriteStartStep(TRUE) /\ rx' = rx

LoopWriteBlock ==
    /\ tx # << >>
    /\ WriteBlockStep(TRUE)

\* the read of writeMsg returns the oldest frame the receiver wrote
LoopWriteFlowControl ==
    /\ rx # << >>
    /\ WriteFlowControlStep(1, Head(rx))
    /\ rx' = Tail(rx)

\* lines 265-270: the read of writeMsg waited for a frame until its timeout
LoopReadTimeout ==
    /\ WriteTurn
    /\ xfer[w.tid].mState = "FLOW_CONTROL_STATE"
    /\ rx = << >>
    /\ now >= w.wdeadline
    /\ fcReads' = fcReads + 1
    /\ cfSinceFc' = 0
    /\ lastFc' = NoMsg
    /\ Fail(xfer[w.tid], "read")
    /\ UNCHANGED <<config, now, tx, rx, mMessageFilters, r, conn>>

\* the receiver's readMsg is called with the next frame of the loopback
LoopRecv ==
    /\ r.n < Len(tx)
    /\ LET res == readMsg(xfer[2], tx[r.n + 1], config, TRUE)
       IN  /\ xfer' = [xfer EXCEPT ![2] = res.t]
           /\ rx' = rx \o res.sent
           /\ r' = [r EXCEPT !.n = @ + 1,
                             !.completed = IF res.ret = "complete"
                                           THEN Append(@, res.out) ELSE @]
    /\ UNCHANGED <<config, now, tx, fcReads, cfSinceFc, lastFc,
                   mMessageFilters, w, conn>>

InitLoop ==
    /\ \E bs \in 0..MaxBS, st \in 0..MaxStmin : config = [BS |-> bs, STMIN |-> st]
    /\ xfer = LoopFilters
    /\ \E n \in Lens \ {0}, Timeout \in Timeouts :
          w = [IdleW EXCEPT !.pc = "batch", !.batch = << Logical(PidA, n, {}) >>,
                            !.i = 1, !.deadline = Timeout, !.NumMsgs = 1]
    /\ now = 0
    /\ tx = << >>
    /\ rx = << >>
    /\ fcReads = 0 /\ cfSinceFc = 0 /\ lastFc = NoMsg
    /\ mMessageFilters = << 1 >>
    /\ r = IdleR
    /\ conn = IdleConn

NextLoop ==
    \/ Tick
    \/ WriteMsgsEnd
    \/ WriteMsgsEnter
    \/ WriteDone
    \/ WriteDeadline
    \/ LoopWriteStart
    \/ LoopWriteFlowControl
    \/ LoopReadTimeout
    \/ LoopWriteBlock
    \/ LoopRecv

SpecLoop == InitLoop /\ [][NextLoop]_vars

-----------------------------------------------------------------------------
(* readMsgs while the bus delivers the frames of segmented messages for    *)
(* filter 1: FirstFrames announcing 0, 6, 7, MaxFf and 4095 bytes, and the *)
(* ConsecutiveFrames 1 and 2 that follow a FirstFrame of bytes 0..5.  The  *)
(* configuration holds any block size, one above 255 among them.           *)

FirstFrames ==
    { CanFrame(PidAR, << 16 + (n \div 256), n % 256, 0, 1, 2, 3, 4, 5 >>) :
        n \in {0, 6, 7, MaxFf, 16 * 256 - 1} }

FollowFrames ==
    { CanFrame(PidAR, << 33, 6, 7, 8, 9, 10, 11, 12 >>),
      CanFrame(PidAR, << 34, 13, 14, 15, 16, 17, 18, 19 >>) }

BlockSizes == (0..MaxBS) \cup {256 + 1}

FfFrame ==
    \E m \in FirstFrames \cup FollowFrames :
        getTransferByPattern(m) = 1 /\ ReadMsgsStep(m, TRUE)

\* the wrapped channel refuses the Flow Control frame readMsg writes
FfRefused ==
    \E m \in FirstFrames \cup FollowFrames :
        /\ readMsg(xfer[1], m, config, TRUE).sent # << >>
        /\ ReadMsgsStep(m, FALSE)

InitFf ==
    /\ \E bs \in BlockSizes, st \in {0, MaxStmin} : config = [BS |-> bs, STMIN |-> st]
    /\ xfer = Filters0
    /\ \E cap \in {MaxCap}, Timeout \in {1} :
         r = [IdleR EXCEPT !.pc = "slot", !.cap = cap, !.deadline = Timeout,
                           !.NumMsgs = cap,
                           !.slots = [k \in 1..cap |-> NoMsg]]
    /\ now = 0
    /\ tx = << >>
    /\ rx = << >>
    /\ fcReads = 0 /\ cfSinceFc = 0 /\ lastFc = NoMsg
    /\ mMessageFilters = << 1, 2 >>
    /\ w = IdleW
    /\ conn = IdleConn

NextFf ==
    \/ Tick
    \/ ReadMsgsEnd
    \/ ReadMsgsTimeout
    \/ ReadMsgsNoFrame
    \/ FfFrame
    \/ FfRefused

SpecFf == InitFf /\ [][NextFf]_vars

-----------------------------------------------------------------------------
(* Calls of writeMsgs and readMsgs one after the other on the same         *)
(* channel: each call finds the Transfers as the calls before it left them. *)
(* tx and now are those of the call that runs: the frames it wrote and the *)
(* time since it began.                                                    *)

SeqBatches ==
    { << ShortMsg >>, << Logical(PidNone, 2, {}) >>, << Logical(PidA, 3, {}) >>,
      << Logical(PidA, 9, {}) >> }

SeqTimeouts == {1, MaxNow + 1}

NoCall == w.pc \in {"idle", "returned", "thrown"} /\ r.pc \in {"idle", "returned"}

\* the application calls writeMsgs (line 572)
SeqCallWrite ==
    /\ NoCall
    /\ \E batch \in SeqBatches, Timeout \in SeqTimeouts :
          w' = [IdleW EXCEPT !.pc = "batch", !.batch = batch, !.i = 1,
                             !.deadline = Timeout, !.NumMsgs = Len(batch)]
    /\ r' = IdleR
    /\ now' = 0
    /\ tx' = << >>
    /\ fcReads' = 0 /\ cfSinceFc' = 0 /\ lastFc' = NoMsg
    /\ UNCHANGED <<xfer, config, rx, mMessageFilters, conn>>

\* the application calls readMsgs (line 530)
SeqCallRead ==
    /\ NoCall
    /\ \E Timeout \in SeqTimeouts :
          r' = [IdleR EXCEPT !.pc = "slot", !.cap = 1, !.deadline = Timeout,
                             !.NumMsgs = 1, !.slots = << NoMsg >>]
    /\ w' = IdleW
    /\ now' = 0
    /\ tx' = << >>
    /\ fcReads' = 0 /\ cfSinceFc' = 0 /\ lastFc' = NoMsg
    /\ UNCHANGED <<xfer, config, rx, mMessageFilters, conn>>

InitSeq ==
    /\ \E bs \in {0, 1} : config = [BS |-> bs, STMIN |-> 1]
    /\ xfer = Filters0
    /\ w = IdleW
    /\ r = IdleR
    /\ now = 0
    /\ tx = << >>
    /\ rx = << >>
    /\ fcReads = 0 /\ cfSinceFc = 0 /\ lastFc = NoMsg
    /\ mMessageFilters = << 1, 2 >>
    /\ conn = IdleConn

NextSeq ==
    \/ SeqCallWrite
    \/ SeqCallRead
    \/ NextW
    \/ NextR

SpecSeq == InitSeq /\ [][NextSeq]_vars

-----------------------------------------------------------------------------
(* readMsgs with the two filters of Filters0, which match the identifiers  *)
(* 0x7E8 and 0x7E9 alone, while the bus delivers the frames of two         *)
(* segmented messages, one per filter, interleaved: rx is the bus, r.n the *)
(* number of its frames delivered so far.  The application calls readMsgs  *)
(* again when a call has returned.                                         *)

MuxMsgA == Logical(PidAR, 9, {})
MuxMsgB == Logical(PidBR, MaxShort, {})

\* the frames a sender makes of a segmented message: the FirstFrame and
\* the ConsecutiveFrames in order
FramesOf(msg) ==
    LET ffData == CAN_DATA_SIZE - J2534_PCI_SIZE - J2534_LENGTH_SIZE
        cfData == CAN_DATA_SIZE - J2534_PCI_SIZE
        n == ((msg.DataSize - J2534_DATA_OFFSET) - ffData + cfData - 1) \div cfData
    IN  << firstFrameOf(msg).frame >>
        \o [k \in 1..n |->
              consecutiveFrameOf(msg, J2534_DATA_OFFSET + ffData
                                        + cfData * (k - 1), k).frame]

RECURSIVE Interleavings(_, _)
Interleavings(a, b) ==
    IF a = << >> THEN {b}
    ELSE IF b = << >> THEN {a}
    ELSE { << Head(a) >> \o s : s \in Interleavings(Tail(a), b) }
         \cup { << Head(b) >> \o s : s \in Interleavings(a, Tail(b)) }

\* the application calls readMsgs (line 530) after a call has returned
MuxCall ==
    /\ r.pc = "returned"
    /\ r.n < Len(rx)
    /\ \E cap \in 1..MaxCap, Timeout \in SeqTimeouts :
          r' = [r EXCEPT !.pc = "slot", !.cap = cap, !.deadline = Timeout,
                         !.NumMsgs = cap, !.i = 0, !.count = 0,
                         !.slots = [k \in 1..cap |-> NoMsg]]
    /\ now' = 0
    /\ UNCHANGED <<xfer, config, tx, rx, fcReads, cfSinceFc, lastFc,
                   mMessageFilters, w, conn>>

\* lines 544-565: the wrapped channel returns the next frame of the bus
MuxRecv ==
    /\ r.n < Len(rx)
    /\ ReadMsgsBody(rx[r.n + 1], TRUE)

InitMux ==
    /\ \E bs \in 0..MaxBS : config = [BS |-> bs, STMIN |-> 0]
    /\ xfer = Filters0
    /\ \E cap \in 1..MaxCap, Timeout \in SeqTimeouts :
         r = [IdleR EXCEPT !.pc = "slot", !.cap = cap, !.deadline = Timeout,
                           !.NumMsgs = cap,
                           !.slots = [k \in 1..cap |-> NoMsg]]
    /\ now = 0
    /\ tx = << >>
    /\ rx \in Interleavings(FramesOf(MuxMsgA), FramesOf(MuxMsgB))
    /\ fcReads = 0 /\ cfSinceFc = 0 /\ lastFc = NoMsg
    /\ mMessageFilters = << 1, 2 >>
    /\ w = IdleW
    /\ conn = IdleConn

NextMux ==
    \/ Tick
    \/ ReadMsgsEnd
    \/ ReadMsgsTimeout
    \/ ReadMsgsNoFrame
    \/ MuxCall
    \/ MuxRecv

SpecMux == InitMux /\ [][NextMux]_vars

-----------------------------------------------------------------------------
(* DeviceISO15765::connect (lines 45-56) *)

ProtocolIds == { p + 8192 * h : p \in 0..MaxProto, h \in {0, 1} }

Connect ==
    /\ conn.pc = "called"
    /\ LET p1 == IF conn.ProtocolID % 8192 = ISO15765
                 THEN conn.ProtocolID - 1 ELSE conn.ProtocolID
       IN  conn' = [conn EXCEPT !.pc = "returned",
                                !.delegated = p1,
                                !.wrapped = (p1 % 8192 = ISO15765)]
    /\ UNCHANGED <<xfer, config, now, tx, rx, fcReads, cfSinceFc, lastFc,
                   mMessageFilters, w, r>>

InitConnect ==
    /\ \E p \in ProtocolIds : conn = [IdleConn EXCEPT !.pc = "called",
                                                     !.ProtocolID = p]
    /\ config = [BS |-> 0, STMIN |-> 0]
    /\ xfer = Filters0
    /\ now = 0
    /\ tx = << >>
    /\ rx = << >>
    /\ fcReads = 0 /\ cfSinceFc = 0 /\ lastFc = NoMsg
    /\ mMessageFilters = << >>
    /\ w = IdleW
    /\ r = IdleR

NextConnect == Connect

SpecConnect == InitConnect /\ [][NextConnect]_vars

-----------------------------------------------------------------------------
(* Properties of writeMsgs / writeMsg *)

Last(seq) == seq[Len(seq)]

\* the frames the current (or last) writeMsg call emitted
Emitted == SubSeq(tx, w.tx0 + 1, Len(tx))

Pci(frame) == frame.Data[J2534_DATA_OFFSET + 1]
PayloadLen(msg) == msg.DataSize - J2534_DATA_OFFSET

\* a writeMsg call that found the Transfer idle is running or has returned
InWrite == w.pc = "loop"
AfterWrite ==
    /\ w.pc \in {"batch", "returned"}
    /\ w.results # << >>
    /\ Last(w.results).why # "state"

\* C2: a write of a payload of at most 7 bytes on an idle Transfer emits at
\* most one frame, a SingleFrame whose low nibble is the payload length, and
\* issues no read on the wrapped channel; it returns success, having emitted
\* exactly that one frame and with the Transfer in START_STATE, unless the
\* wrapped channel refused the frame or no time remained at the first turn
\* of the loop, in which case nothing was emitted.
C2_SingleFrame ==
    ((InWrite \/ AfterWrite) /\ PayloadLen(w.msg) <= 7) =>
        /\ Len(Emitted) <= 1
        /\ fcReads = 0
        /\ \A k \in 1..Len(Emitted) :
              /\ getFrameName(Pci(Emitted[k])) = "SingleFrame"
              /\ Pci(Emitted[k]) % 16 = PayloadLen(w.msg)
        /\ AfterWrite =>
              /\ Last(w.results).why \in {"ok", "write", "deadline"}
              /\ Last(w.results).ret <=> Len(Emitted) = 1
              /\ Last(w.results).ret <=> Last(w.results).why = "ok"
              /\ xfer[w.tid].mState = "START_STATE"

C2_Witness ==
    /\ AfterWrite
    /\ PayloadLen(w.msg) = 7
    /\ Last(w.results).ret
    /\ Len(Emitted) = 1

\* C3: in a write of a payload of 8 bytes or more on an idle Transfer the
\* first frame emitted is a FirstFrame whose 12-bit length is the payload
\* length, every later frame is a ConsecutiveFrame whose low nibble is its
\* rank modulo 16 (1, 2, ..., 15, 0, 1, ...), and a ConsecutiveFrame is
\* emitted only when the last read on the wrapped channel returned a valid
\* Flow Control frame.
C3_Order ==
    ((InWrite \/ AfterWrite) /\ PayloadLen(w.msg) >= 8) =>
        /\ Len(Emitted) >= 1 =>
              /\ getFrameName(Pci(Emitted[1])) = "FirstFrame"
              /\ (Pci(Emitted[1]) % 16) * 256
                    + Emitted[1].Data[J2534_DATA_OFFSET + 2] = PayloadLen(w.msg)
        /\ \A k \in 2..Len(Emitted) :
              /\ getFrameName(Pci(Emitted[k])) = "ConsecutiveFrame"
              /\ Pci(Emitted[k]) % 16 = (k - 1) % 16
        /\ Len(Emitted) >= 2 => fcReads >= 1

C3_AfterFlowControl ==
    (w.pc = "loop" /\ Len(tx') > Len(tx) /\ Len(tx) > w.tx0) =>
        validFlowControl(xfer[w.tid], 1, lastFc)

C3_MultiFrame == [](C3_Order) /\ [][C3_AfterFlowControl]_vars

C3_Witness ==
    /\ AfterWrite
    /\ Last(w.results).ret
    /\ Len(Emitted) = 18
    /\ Pci(Emitted[17]) % 16 = 0
    /\ Pci(Emitted[18]) % 16 = 1

FcBs(frame) == frame.Data[J2534_DATA_OFFSET + J2534_PCI_SIZE + 1]

\* C4: while a write runs after a valid Flow Control frame with block size
\* k > 0, at most k ConsecutiveFrames have been emitted since it; a further
\* read on the wrapped channel is issued only when the last Flow Control
\* frame carried a block size k > 0 and exactly k ConsecutiveFrames were
\* emitted since it (so never after block size 0).
C4_Within ==
    (InWrite /\ fcReads >= 1 /\ FcBs(lastFc) > 0) => cfSinceFc <= FcBs(lastFc)

C4_NextRead ==
    (w.pc = "loop" /\ fcReads >= 1 /\ fcReads' = fcReads + 1) =>
        /\ FcBs(lastFc) > 0
        /\ cfSinceFc = FcBs(lastFc)

C4_Pacing == [](C4_Within) /\ [][C4_NextRead]_vars

\* a block of two ConsecutiveFrames is complete, the message is not: the
\* next step is a read
C4_Witness ==
    /\ InWrite
    /\ fcReads >= 1
    /\ FcBs(lastFc) = 2
    /\ cfSinceFc = 2
    /\ xfer[w.tid].mState = "FLOW_CONTROL_STATE"
    /\ w.msg.DataSize > xfer[w.tid].mOffset

\* C6 as claimed: a writeMsg call that returned failure left the Transfer
\* with state START_STATE, offset 0, sequence 0, bs 0 and stmin 0.
C6_ResetOnFailure ==
    (w.pc \in {"batch", "returned"} /\ w.results # << >>
        /\ ~Last(w.results).ret) =>
        /\ xfer[w.tid].mState = "START_STATE"
        /\ xfer[w.tid].mOffset = 0
        /\ xfer[w.tid].mSequence = 0
        /\ xfer[w.tid].mBs = 0
        /\ xfer[w.tid].mStmin = 0

\* C8 as claimed, for writeMsgs and writeMsg: from a turn of the loop at
\* which deadline minus now is zero or negative, the call returns with the
\* count so far and no frame is written and no read issued.
C8_Step ==
    /\ (w.pc = "batch" /\ w.i <= Len(w.batch) /\ w.deadline - now <= 0
            /\ w' # w) =>
          (w'.pc = "returned" /\ w'.NumMsgs = w.count /\ tx' = tx)
    /\ (WriteTurn /\ w.wdeadline - now <= 0 /\ w' # w) =>
          (w'.pc = "batch" /\ w'.count = w.count /\ tx' = tx
             /\ fcReads' = fcReads)
    /\ (WriteTurn /\ w.wdeadline - now <= 0) => (tx' = tx /\ fcReads' = fcReads)

C8_NonPositiveStops == [][C8_Step]_vars

\* C9 as claimed: writeMsgs always returns normally, and then the count
\* out-parameter holds the number of messages written.
C9_NeverAborts ==
    /\ w.pc # "thrown"
    /\ w.pc = "returned" => w.NumMsgs = w.count

-----------------------------------------------------------------------------
(* Properties of readMsgs *)

\* C5 as claimed: when readMsgs returns count n, output slot i holds the
\* i-th message completed during the call, for every i < n.
C5_SuccessiveSlots ==
    r.pc = "returned" =>
        \A k \in 1..r.NumMsgs : r.slots[k] = r.completed[k]

WrongKind(state, frame) ==
    \/ /\ state = "START_STATE"
       /\ getFrameName(Pci(frame)) \notin {"SingleFrame", "FirstFrame"}
    \/ /\ state = "BLOCK_STATE"
       /\ getFrameName(Pci(frame)) # "ConsecutiveFrame"

\* C7 as claimed: a step of readMsgs that hands readMsg a frame of at least
\* 4 bytes, matching the Transfer's identifier, of a kind that is wrong for
\* the Transfer's state, completes no message (count, slots unchanged) and
\* leaves the Transfer with state START_STATE, offset 0 and sequence 0.
C7_Step ==
    \A m \in BusFrames, wok \in BOOLEAN :
        LET tid == getTransferByPattern(m)
        IN  (/\ m.DataSize >= J2534_DATA_OFFSET
             /\ tid # 0
             /\ WrongKind(xfer[tid].mState, m)
             /\ ReadMsgsStep(m, wok)) =>
                /\ r'.count = r.count
                /\ r'.slots = r.slots
                /\ xfer'[tid].mState = "START_STATE"
                /\ xfer'[tid].mOffset = 0
                /\ xfer'[tid].mSequence = 0

C7_WrongKindResets == [][C7_Step]_vars

-----------------------------------------------------------------------------
(* Properties of the loopback *)

\* C1: on the loopback, for a payload of 1 byte or more, a writeMsg call
\* that did not run into its deadline (neither at a turn of its loop nor in
\* its read) returned success, and so did every call that returned before
\* the deadline; the receiver completes at most one message,
\* and once it has consumed every frame written it has completed exactly
\* one, of the sender's DataSize, identifier and payload bytes.
C1_RoundTrip ==
    /\ Len(r.completed) <= 1
    /\ (w.pc = "returned" /\ w.results # << >>) =>
          /\ Last(w.results).ret <=> Last(w.results).why = "ok"
          /\ Last(w.results).why \in {"ok", "deadline", "read"}
          /\ now < w.deadline => Last(w.results).ret
          /\ (Last(w.results).ret /\ r.n = Len(tx)) =>
                /\ Len(r.completed) = 1
                /\ r.completed[1].ProtocolID = ISO15765
                /\ r.completed[1].DataSize = w.msg.DataSize
                /\ SubSeq(r.completed[1].Data, 1, r.completed[1].DataSize)
                      = SubSeq(w.msg.Data, 1, w.msg.DataSize)

C1_Witness ==
    /\ w.pc = "returned" /\ w.results # << >>
    /\ Last(w.results).ret
    /\ r.n = Len(tx)
    /\ Len(r.completed) = 1
    /\ PayloadLen(w.msg) = WrapLen
    /\ config.BS = 2
    /\ fcReads > 2

\* C21 as claimed: on the loopback with a block size above 0, once
\* writeMsg has returned success and the receiver has consumed every frame
\* written, no Flow Control frame of the receiver is left unread: the
\* receiver wrote none for the ConsecutiveFrame that completed the message.
C21_NoStaleFlowControl ==
    (/\ config.BS > 0
     /\ w.pc = "returned" /\ w.results # << >>
     /\ Last(w.results).ret
     /\ r.n = Len(tx)) => rx = << >>

-----------------------------------------------------------------------------
(* Properties of connect *)

\* C10 as claimed: connect with a protocol id whose low 13 bits are
\* ISO15765 delegates with the id decremented by one and returns a
\* ChannelISO15765 wrapping the channel obtained; with any other id it
\* delegates unchanged and returns the raw channel.
C10_ConnectWraps ==
    conn.pc = "returned" =>
        IF conn.ProtocolID % 8192 = ISO15765
        THEN conn.delegated = conn.ProtocolID - 1 /\ conn.wrapped
        ELSE conn.delegated = conn.ProtocolID /\ ~conn.wrapped

-----------------------------------------------------------------------------
(* Properties of the routing of readMsgs *)

\* the places of the registry whose filter matches the identifier of frame
Matching(frame) ==
    { k \in 1..Len(mMessageFilters) :
        BitAnd(data2pid(frame.Data), xfer[mMessageFilters[k]].mMaskPid)
            = xfer[mMessageFilters[k]].mPatternPid }

\* C11: a step of readMsgs that read a frame hands it to the Transfer of
\* the first filter, in insertion order, whose pattern is the frame's
\* identifier under the filter's mask, and changes no other Transfer; when
\* no filter matches, no Transfer changes, no frame is written, no slot is
\* filled, the count stays and readMsgs goes on with the same slot.
C11_Step ==
    \A m \in BusFrames, wok \in BOOLEAN :
        ReadMsgsStep(m, wok) =>
            IF Matching(m) = {}
            THEN /\ xfer' = xfer
                 /\ tx' = tx
                 /\ r'.slots = r.slots
                 /\ r'.count = r.count
                 /\ r'.i = r.i
                 /\ r'.pc = "slot"
            ELSE LET first == mMessageFilters[
                                CHOOSE k \in Matching(m) :
                                    \A j \in Matching(m) : k <= j]
                 IN  /\ xfer'[first] = readMsg(xfer[first], m, config, wok).t
                     /\ \A tid \in Tids \ {first} : xfer'[tid] = xfer[tid]

C11_Routing == [][C11_Step]_vars

\* a FirstFrame of identifier 0x7E8 went to filter 2, registered first,
\* and then an unmatched frame was dropped
C11_Witness ==
    /\ mMessageFilters = << 2, 1 >>
    /\ xfer[2].mState = "BLOCK_STATE"
    /\ xfer[1] = RouteFilters[1]
    /\ Len(tx) = 1
    /\ data2pid(tx[1].Data) = PidB
    /\ r.n = 2
    /\ r.count = 0

-----------------------------------------------------------------------------
(* Properties of the accounting of writeMsgs *)

Successes == { k \in 1..Len(w.results) : w.results[k].ret }

\* the count of writeMsgs is the number of writeMsg calls that returned
\* success, and it is what a call that returns stores; a call that returned
\* before its deadline has been through the whole batch
C12_Count ==
    /\ w.count = Cardinality(Successes)
    /\ w.pc = "returned" =>
          /\ w.NumMsgs = Cardinality(Successes)
          /\ now < w.deadline => w.i = Len(w.batch) + 1

\* a message no Transfer has the identifier of writes no frame and is not
\* counted; a writeMsg call that returns, with success or failure, was for
\* message i of the batch and leaves writeMsgs at message i + 1
C12_Step ==
    /\ (/\ w.pc = "batch" /\ w.i <= Len(w.batch)
        /\ getTransferByFlowControl(w.batch[w.i]) = 0
        /\ w' # w) =>
            /\ tx' = tx
            /\ w'.count = w.count
            /\ w'.results = w.results
            /\ w'.pc = "batch" => w'.i = w.i + 1
    /\ Len(w'.results) > Len(w.results) =>
            /\ w'.pc = "batch"
            /\ w'.i = w.i + 1
            /\ w'.msg = w.batch[w.i]
            /\ Len(w'.results) = Len(w.results) + 1

-----------------------------------------------------------------------------
(* Properties of the frames writeMsg builds *)

\* the bytes of frame k of a write that mean something: the identifier, the
\* PCI byte, the length byte of a FirstFrame, and the payload bytes carried
Meaningful(k) ==
    LET n == PayloadLen(w.msg)
    IN  IF n <= 7 THEN J2534_DATA_OFFSET + 1 + n
        ELSE IF k = 1 THEN J2534_DATA_OFFSET + 2 + 6
        ELSE J2534_DATA_OFFSET + 1 + Min(7, n - 6 - 7 * (k - 2))

\* C13: every frame a write emits for a message with ISO15765_FRAME_PAD has
\* DataSize 12 and zeros after its meaningful bytes; without the flag it
\* has exactly its meaningful bytes; in both cases its TxFlags hold neither
\* ISO15765_FRAME_PAD nor ISO15765_ADDR_TYPE.
C13_Padding ==
    (InWrite \/ AfterWrite) =>
        \A k \in 1..Len(Emitted) :
            LET f == Emitted[k]
            IN  /\ f.TxFlags \cap {ISO15765_FRAME_PAD, ISO15765_ADDR_TYPE} = {}
                /\ Len(f.Data) = f.DataSize
                /\ IF ISO15765_FRAME_PAD \in w.msg.TxFlags
                   THEN /\ f.DataSize = J2534_DATA_OFFSET + CAN_DATA_SIZE
                        /\ \A i \in (Meaningful(k) + 1)..f.DataSize : f.Data[i] = 0
                   ELSE f.DataSize = Meaningful(k)
                /\ SubSeq(f.Data, 1, J2534_DATA_OFFSET)
                      = SubSeq(w.msg.Data, 1, J2534_DATA_OFFSET)

\* a padded write of three frames whose last ConsecutiveFrame carries fewer
\* than seven bytes
C13_Witness ==
    /\ AfterWrite
    /\ Last(w.results).ret
    /\ ISO15765_FRAME_PAD \in w.msg.TxFlags
    /\ ISO15765_ADDR_TYPE \in w.msg.TxFlags
    /\ Len(Emitted) = 3
    /\ Meaningful(3) < J2534_DATA_OFFSET + CAN_DATA_SIZE
    /\ Emitted[3].DataSize = J2534_DATA_OFFSET + CAN_DATA_SIZE

-----------------------------------------------------------------------------
(* Properties of a Transfer across calls *)

Zeroed(t) ==
    t.mOffset = 0 /\ t.mSequence = 0 /\ t.mBs = 0 /\ t.mStmin = 0

\* C14: whenever no writeMsg call is in its loop (readMsg calls are single
\* steps), every Transfer is in START_STATE exactly when its offset,
\* sequence, bs and stmin are all 0.
C14_IdleInvariant ==
    w.pc # "loop" =>
        \A tid \in Tids : (xfer[tid].mState = "START_STATE") <=> Zeroed(xfer[tid])

\* a writeMsgs call found Transfer 1 in the middle of a reassembly that a
\* readMsgs call before it began, and writeMsg reset it
C14_Witness ==
    /\ w.pc = "returned"
    /\ w.results = << [ret |-> FALSE, why |-> "state"] >>
    /\ xfer[1].mMessage.ProtocolID = ISO15765
    /\ xfer[1].mState = "START_STATE"
    /\ Zeroed(xfer[1])

\* C15: a writeMsg call for a message of DataSize 4 or more on a Transfer
\* that is not in START_STATE writes no frame, returns failure (nothing is
\* counted) and leaves the Transfer in START_STATE with offset, sequence,
\* bs and stmin 0.
C15_Step ==
    (/\ w.pc = "batch" /\ w.i <= Len(w.batch)
     /\ getTransferByFlowControl(w.batch[w.i]) # 0
     /\ w.batch[w.i].DataSize >= J2534_DATA_OFFSET
     /\ xfer[getTransferByFlowControl(w.batch[w.i])].mState # "START_STATE"
     /\ w' # w
     /\ w'.pc # "returned") =>
        LET tid == getTransferByFlowControl(w.batch[w.i])
        IN  /\ tx' = tx
            /\ w'.pc = "batch"
            /\ Len(w'.results) = Len(w.results) + 1
            /\ ~Last(w'.results).ret
            /\ w'.count = w.count
            /\ xfer'[tid].mState = "START_STATE"
            /\ Zeroed(xfer'[tid])

C15_BusyReuse == [][C15_Step]_vars

\* writeMsg was refused on a Transfer holding the first six bytes of an
\* inbound message of eight
C15_Witness ==
    /\ w.pc = "batch"
    /\ w.results # << >>
    /\ Last(w.results).why = "state"
    /\ xfer[w.tid].mState = "START_STATE"
    /\ Zeroed(xfer[w.tid])
    /\ xfer[w.tid].mMessage.ProtocolID = ISO15765
    /\ xfer[w.tid].mMessage.DataSize = J2534_DATA_OFFSET + 8
    /\ tx = << >>

-----------------------------------------------------------------------------
(* Properties of readMsg in BLOCK_STATE and of the Flow Control it sends *)

\* what a caller and the bus see of a readMsg call, and the Transfer's
\* protocol fields after it
Seen(res) ==
    << res.ret, res.out, res.sent, res.t.mState, res.t.mOffset,
       res.t.mSequence, res.t.mBs, res.t.mStmin >>

\* C16: a step of readMsgs that hands a Transfer in BLOCK_STATE a frame of
\* its identifier whose low nibble is not the expected sequence modulo 16
\* completes nothing (count and slots unchanged), writes no frame, and
\* leaves the Transfer in START_STATE with offset, sequence, bs and stmin
\* 0, so that readMsg on any next frame does what it does on a Transfer
\* that was never used.
C16_Step ==
    (r'.n = r.n + 1 /\ \E t \in Tids : xfer[t].mState = "BLOCK_STATE") =>
    \A m \in BusFrames :
        LET tid == getTransferByPattern(m)
        IN  (/\ m.DataSize >= J2534_DATA_OFFSET
             /\ tid # 0
             /\ xfer[tid].mState = "BLOCK_STATE"
             /\ Pci(m) % 16 # xfer[tid].mSequence % 16
             /\ \E wok \in BOOLEAN : ReadMsgsStep(m, wok)) =>
                /\ r'.count = r.count
                /\ r'.slots = r.slots
                /\ r'.i = r.i
                /\ tx' = tx
                /\ xfer'[tid].mState = "START_STATE"
                /\ Zeroed(xfer'[tid])
                /\ \A m2 \in BusFrames, wok2 \in BOOLEAN :
                      Seen(readMsg(xfer'[tid], m2, config, wok2))
                        = Seen(readMsg(Filters0[tid], m2, config, wok2))

C16_SequenceMismatch == [][C16_Step]_vars

\* Transfer 1 holds the header of a message of ten bytes it no longer
\* reassembles, and the frame after the FirstFrame completed nothing
C16_Witness ==
    /\ r.n = 2
    /\ r.count = 0
    /\ Len(tx) = 1
    /\ xfer[1].mMessage.DataSize = J2534_DATA_OFFSET + 10
    /\ xfer[1].mState = "START_STATE"
    /\ Zeroed(xfer[1])

\* C17 as claimed: once the FirstFrame announcing 10 bytes is consumed and
\* until the ConsecutiveFrame that completes the message is, one Flow
\* Control frame has been written; when that ConsecutiveFrame has been
\* consumed the 10 bytes are delivered and still exactly one Flow Control
\* frame has been written, whatever the block size and separation time
\* configured.
C17_OneFlowControl ==
    /\ (/\ r.n = 1
        /\ xfer[1].mState = "BLOCK_STATE"
        /\ xfer[1].mMessage.DataSize = J2534_DATA_OFFSET + 10) =>
            /\ Len(tx) = 1
            /\ getFrameName(Pci(tx[1])) = "FlowControl"
    /\ (/\ r.n = 2
        /\ r.count = 1
        /\ r.completed[1].DataSize = J2534_DATA_OFFSET + 10) =>
            /\ Len(tx) = 1
            /\ Bytes(r.completed[1].Data, J2534_DATA_OFFSET, 10)
                  = << 0, 1, 2, 3, 4, 5, 6, 7, 8, 9 >>

\* C18 as claimed: when readMsgs has consumed one frame and the Flow
\* Control frame it answered with was written (the frame was a FirstFrame
\* and the write succeeded), nothing was delivered and the Transfer is in
\* BLOCK_STATE with offset 10, sequence 1 and a buffer of the announced
\* size.
C18_FirstFramePending ==
    (r.n = 1 /\ Len(tx) = 1) =>
        /\ r.count = 0
        /\ xfer[1].mState = "BLOCK_STATE"
        /\ xfer[1].mOffset = 10
        /\ xfer[1].mSequence = 1
        /\ xfer[1].mMessage.DataSize >= J2534_DATA_OFFSET

\* C19: in FLOW_CONTROL_STATE writeMsg reads one frame from the wrapped
\* channel and emits nothing in that turn; when the read returns no frame, or
\* the frame has fewer than 4 bytes, or its identifier under the mask is not
\* the pattern, or it is not a Flow Control frame, writeMsg returns failure
\* with no frame emitted, the count of written messages unchanged and the
\* Transfer in START_STATE; a ConsecutiveFrame is emitted only after a read
\* whose frame passed the three checks.
AcceptableFlowControl(t, m) ==
    /\ m.DataSize >= 4
    /\ BitAnd(data2pid(m.Data), t.mMaskPid) = t.mPatternPid
    /\ getFrameName(Pci(m)) = "FlowControl"

C19_Rejects(count, m) ==
    (WriteFlowControlStep(count, m)
        /\ ~(count = 1 /\ AcceptableFlowControl(xfer[w.tid], m))) =>
        /\ tx' = tx
        /\ w'.pc # "loop"
        /\ ~Last(w'.results).ret
        /\ Len(w'.results) = Len(w.results) + 1
        /\ w'.count = w.count
        /\ xfer'[w.tid].mState = "START_STATE"

C19_Step ==
    /\ C19_Rejects(0, NoMsg)
    /\ \A m \in Replies : C19_Rejects(1, m)
    /\ (WriteTurn /\ xfer[w.tid].mState = "FLOW_CONTROL_STATE") => tx' = tx
    /\ (WriteTurn /\ Len(tx') > Len(tx)
            /\ getFrameName(Pci(Last(tx'))) = "ConsecutiveFrame") =>
        /\ fcReads >= 1
        /\ AcceptableFlowControl(xfer[w.tid], lastFc)

C19_FlowControlValidation == [][C19_Step]_vars

C19_Witness ==
    /\ AfterWrite
    /\ Last(w.results).why = "flowcontrol"
    /\ fcReads = 1
    /\ lastFc # NoMsg
    /\ lastFc.DataSize >= 4
    /\ getFrameName(Pci(lastFc)) = "FlowControl"
    /\ data2pid(lastFc.Data) = PidBR
    /\ Len(Emitted) = 1
    /\ w.count = 0
    /\ xfer[w.tid].mState = "START_STATE"

\* C20 as claimed: the block-size byte of the Flow Control frame written
\* in answer to a FirstFrame is the value the Transfer's mBs was given.
C20_AdvertisedBs ==
    (r.n = 1 /\ Len(tx) = 1 /\ xfer[1].mState = "BLOCK_STATE") =>
        FcBs(tx[1]) = xfer[1].mBs

-----------------------------------------------------------------------------
(* Properties of readMsgs on the interleaved bus *)

\* out carries the protocol, the size, the identifier and the payload of msg
Intact(out, msg) ==
    /\ out.ProtocolID = ISO15765
    /\ out.DataSize = msg.DataSize
    /\ SubSeq(out.Data, 1, out.DataSize) = SubSeq(msg.Data, 1, msg.DataSize)

\* the messages readMsgs handed to its caller in the running or last call,
\* in the order of their completion
CompletedInCall ==
    SubSeq(r.completed, Len(r.completed) - r.count + 1, Len(r.completed))

\* every message completed is one of the two, intact, each at most once, and
\* both are there once the bus is exhausted
C22_Reassembled ==
    /\ \A k \in 1..Len(r.completed) :
          Intact(r.completed[k], MuxMsgA) \/ Intact(r.completed[k], MuxMsgB)
    /\ Len(r.completed) <= 2
    /\ Len(r.completed) = 2 => r.completed[1] # r.completed[2]
    /\ r.n = Len(rx) => Len(r.completed) = 2

\* the caller's slots hold the messages completed in the call, one each
C22_Slots ==
    \A k \in 1..r.count : r.slots[k] = CompletedInCall[k]

\* a frame delivered leaves the other filter's Transfer as it was, and a
\* Flow Control frame written for it carries the mFlowControlPid of the
\* filter that matched it
C22_Step ==
    (r'.n = r.n + 1) =>
        LET tid == getTransferByPattern(rx[r.n + 1])
        IN  /\ tid \in Tids
            /\ \A other \in Tids \ {tid} : xfer'[other] = xfer[other]
            /\ \A k \in (Len(tx) + 1)..Len(tx') :
                  /\ getFrameName(Pci(tx'[k])) = "FlowControl"
                  /\ data2pid(tx'[k].Data) = xfer[tid].mFlowControlPid

\* C22 as claimed: with the two filters matching disjoint identifiers, for
\* every interleaving of the frames of the two segmented messages, readMsgs
\* hands both messages to its caller with their payloads intact, every Flow
\* Control frame written carries the mFlowControlPid of the filter that
\* matched, and a frame of one message leaves the other filter's Transfer
\* unchanged.
C22_IndependentReassembly ==
    [](C22_Reassembled /\ C22_Slots) /\ [][C22_Step]_vars

====
